---- MODULE Spec2Model ----
(***************************************************************************)
(* Model of src/app.py (RelianceAutomation): the Gmail attachment pipeline *)
(* into Drive, the PDF pipeline into the main Google Sheet, the retry      *)
(* loops, the folder/file existence guards and the processed-state ledger. *)
(*                                                                         *)
(* The module holds several specifications over one set of variables:      *)
(*   SaveSpec   _save_to_sheets called directly on the main sheet          *)
(*   FolderSpec _create_drive_folder called directly on the Drive tree     *)
(*   GmailSpec  runs of process_gmail_workflow (search, folders, uploads)  *)
(*   PdfSpec    runs of process_pdf_workflow (list, extract, save, ledger) *)
(*   LedgerSpec processes that load, extend and save processed_state.json  *)
(*   MainSpec   main(): authenticate, run_combined_workflow, the audit row *)
(*   LogSpec    calls of log and clear_logs on the in-memory log buffer    *)
(*   AuditSpec  _log_workflow_to_sheet on a log sheet that exists already  *)
(*   StoredSpec _save_to_sheets on a main sheet that has rows already      *)
(* A specification leaves the variables of the other parts at their        *)
(* initial values.                                                         *)
(***************************************************************************)
EXTENDS Integers, Sequences, FiniteSets, TLC

VARIABLES
    sheet,              \* main sheet: sequence of rows, row 1 is the header row
    op,                 \* the last operation performed (inputs and outcome)
    drive,              \* Drive tree: live folders and files
    fop,                \* folder-guard history (calls per name and parent)
    processed_emails,   \* self.processed_emails
    processed_pdfs,     \* self.processed_pdfs
    stats,              \* self.current_stats
    run,                \* the pipeline run in progress (position, unit list)
    retry,              \* retry_wrapper state of the search call
    faults,             \* remote calls that have failed so far
    state_file,         \* content of processed_state.json
    logsheet,           \* the log sheet: its rows, in order
    main,               \* the process: position in main() and in run_combined_workflow
    logs                \* self.logs: the in-memory log buffer (followed in LogSpec only)

vars == <<sheet, op, drive, fop, processed_emails, processed_pdfs, stats, run, retry, faults,
          state_file, logsheet, main, logs>>

(***************************************************************************)
(* Bounds of the model                                                     *)
(***************************************************************************)
MaxSheetRows == 4       \* rows the main sheet may hold (header included)
MaxRuns == 2            \* pipeline runs in one behaviour
MaxFolderCalls == 3     \* guard calls in one behaviour of FolderSpec
MaxFaults == 1          \* remote failures in one behaviour
MaxStarts == 2          \* processes started in one behaviour of LedgerSpec
MaxInvocations == 2     \* invocations of main() in one behaviour of MainSpec
MaxLogCalls == 103      \* calls of log in one behaviour of LogSpec
MaxAuditCalls == 3      \* calls of _log_workflow_to_sheet in one behaviour of AuditSpec

(***************************************************************************)
(* Program constants                                                       *)
(***************************************************************************)
MAX_RETRIES == 3        \* retry_wrapper budget
AppendMaxRetries == 3   \* max_retries of _append_to_google_sheet
HeaderReadCols == 26    \* _get_sheet_headers reads A1:Z1
HeaderWriteCols == 26   \* _update_headers: chr(64 + len(headers)) is a column letter up to Z
PdfMaxFiles == 1000     \* CONFIG['pdf']['max_files']
DEFAULT_SKIP_EXISTING == TRUE
LogCap == 100           \* log keeps the last 100 entries

(***************************************************************************)
(* Generic helpers                                                         *)
(***************************************************************************)
Min(a, b) == IF a < b THEN a ELSE b

Range(s) == {s[i] : i \in 1..Len(s)}

IsPrefix(s, t) == Len(s) =< Len(t) /\ \A i \in 1..Len(s) : s[i] = t[i]

\* All orderings of a finite set (the orders list(set(...)) may produce).
RECURSIVE Perms(_)
Perms(S) == IF S = {} THEN {<<>>} ELSE UNION {{<<x>> \o p : p \in Perms(S \ {x})} : x \in S}

Contains(s, x) == \E i \in 1..Len(s) : s[i] = x

\* First index of x in s (list.index), 0 when absent (ValueError).
IndexOf(s, x) ==
    IF Contains(s, x) THEN CHOOSE i \in 1..Len(s) : s[i] = x /\ \A j \in 1..(i-1) : s[j] # x ELSE 0

\* The members of a set of indices from `from` up to n, ascending.
RECURSIVE SelectIdx(_, _, _)
SelectIdx(n, from, keep) ==
    IF from > n THEN <<>>
    ELSE (IF from \in keep THEN <<from>> ELSE <<>>) \o SelectIdx(n, from + 1, keep)

Reverse(s) == [i \in 1..Len(s) |-> s[Len(s) + 1 - i]]

RemoveAt(s, i) == SubSeq(s, 1, i - 1) \o SubSeq(s, i + 1, Len(s))

(***************************************************************************)
(* Documents, extraction results and records                               *)
(* A Python dict is a sequence of <<key, value>> pairs with distinct keys, *)
(* in insertion order.                                                     *)
(***************************************************************************)
Docs == {"p1", "p2"}                \* Drive file ids of the PDF documents
KeyField == "drive_file_id"
Now == "t"                          \* time.strftime(...) of the run
Null == "<None>"                    \* Python None

DKeys(d) == {d[i][1] : i \in 1..Len(d)}

DHas(d, k) == k \in DKeys(d)

\* d.get(k, default)
DGet(d, k, default) == IF DHas(d, k) THEN d[CHOOSE i \in 1..Len(d) : d[i][1] = k][2] ELSE default

\* d[k] = v: an existing key keeps its place
DPut(d, k, v) ==
    IF DHas(d, k) THEN [i \in 1..Len(d) |-> IF d[i][1] = k THEN <<k, v>> ELSE d[i]]
    ELSE Append(d, <<k, v>>)

\* extracted_data of one document: with or without an "items" key; an item is a
\* dict of field names to values. No extraction carries a po_number key here.
Extractions == {
    [has_items |-> TRUE,  items |-> << <<(<<"qty", "2">>)>>, <<(<<"qty", "">>)>> >>, po_number |-> ""],
    [has_items |-> TRUE,  items |-> << <<(<<"qty", Null>>), (<<"drive_file_id", "other">>)>> >>, po_number |-> ""],
    [has_items |-> TRUE,  items |-> <<>>, po_number |-> ""],
    [has_items |-> FALSE, items |-> <<>>, po_number |-> ""]
}

\* _get_value(extracted_data, ["po_number", ...]): "" when no key is present
GetValue(data, key) == data[key]

\* {k: v for k, v in item.items() if v not in ["", None]}
IsKept(p) == p[2] # "" /\ p[2] # Null

\* A cleaning that keeps every field.
CleanItem_KeepAll(d) == d

CleanItem(d) == SelectSeq(d, IsKept)

\* the assignments of lines 701-709 the model keeps: po_number, processed_date, drive_file_id
TagItem(item, data, file_id) ==
    DPut(DPut(DPut(item, "po_number", GetValue(data, "po_number")), "processed_date", Now), KeyField, file_id)

ProcessExtractedData(data, file_id) ==
    IF data.has_items
    THEN [i \in 1..Len(data.items) |-> CleanItem(TagItem(data.items[i], data, file_id))]
    ELSE <<>>

(***************************************************************************)
(* The main sheet                                                          *)
(***************************************************************************)
HeaderSrc == "hdr"

\* The sheet stores no trailing empty cells (values.get omits them).
RECURSIVE RTrim(_)
RTrim(cells) ==
    IF Len(cells) > 0 /\ cells[Len(cells)] = "" THEN RTrim(SubSeq(cells, 1, Len(cells) - 1)) ELSE cells

\* values.get(range=sheet_name).get('values', []): [] on failure
GetSheetData(sh, fail) == IF fail THEN <<>> ELSE [i \in 1..Len(sh) |-> sh[i].cells]

\* values.get(range=A1:Z1): values[0] if values else []; [] on failure
GetSheetHeaders(sh, fail) ==
    IF fail \/ Len(sh) = 0 THEN <<>>
    ELSE RTrim(SubSeq(sh[1].cells, 1, Min(Len(sh[1].cells), HeaderReadCols)))

\* values.update(range=A1:<letter>1): overwrites the first len(headers) cells of row 1
UpdateHeadersOk(headers, fail) == ~fail /\ Len(headers) >= 1 /\ Len(headers) =< HeaderWriteCols

UpdateHeaders(sh, headers, fail) ==
    IF ~UpdateHeadersOk(headers, fail) THEN sh
    ELSE IF Len(sh) = 0 THEN <<[cells |-> RTrim(headers), src |-> HeaderSrc]>>
    ELSE [sh EXCEPT ![1] = [cells |-> RTrim(headers \o SubSeq(sh[1].cells, Len(headers) + 1, Len(sh[1].cells))),
                            src |-> HeaderSrc]]

\* all_headers of _save_to_sheets from the existing headers and list(set(keys))
\* for header in new_headers: if header not in all_headers: all_headers.append(header)
RECURSIVE AppendMissing(_, _)
AppendMissing(all, new) ==
    IF new = <<>> THEN all
    ELSE AppendMissing(IF Contains(all, new[1]) THEN all ELSE Append(all, new[1]), Tail(new))

\* A reconciliation without the membership test: the batch's names are appended as they come.
Reconcile_NoMembershipTest(existing_headers, new_headers) == existing_headers \o new_headers

Reconcile(existing_headers, new_headers) ==
    IF existing_headers # <<>> THEN AppendMissing(existing_headers, new_headers) ELSE new_headers

HeadersChanged(existing_headers, all_headers) ==
    IF existing_headers # <<>> THEN Len(all_headers) > Len(existing_headers) ELSE TRUE

\* set().union(*(row.keys() for row in rows))
KeyUnion(rows) == UNION {DKeys(rows[i]) : i \in 1..Len(rows)}

\* [[row.get(h, "") for h in all_headers] for row in rows]
AlignRows(rows, all_headers) ==
    [i \in 1..Len(rows) |-> [j \in 1..Len(all_headers) |->
        DGet(rows[i], all_headers[j], "")]]

\* _append_to_google_sheet: up to three attempts; outcomes[k] says whether attempt k succeeds
AppendAttempts(outcomes) ==
    IF \E k \in 1..AppendMaxRetries : outcomes[k]
    THEN CHOOSE k \in 1..AppendMaxRetries : outcomes[k] /\ \A j \in 1..(k-1) : ~outcomes[j]
    ELSE AppendMaxRetries

\* the WARNING entries _append_to_google_sheet logs: one per failed attempt before the last
AppendWarnings(outcomes) ==
    Cardinality({k \in 1..AppendAttempts(outcomes) : ~outcomes[k] /\ k < AppendMaxRetries})

\* the ERROR entries _append_to_google_sheet logs: one when the last attempt fails
AppendErrors(outcomes) == IF \E k \in 1..AppendMaxRetries : outcomes[k] THEN 0 ELSE 1

AppendOk(outcomes) == \E k \in 1..AppendMaxRetries : outcomes[k]

AppendToGoogleSheet(sh, values, src, outcomes) ==
    [sheet |-> IF AppendOk(outcomes)
               THEN sh \o [i \in 1..Len(values) |-> [cells |-> RTrim(values[i]), src |-> src]]
               ELSE sh,
     ok |-> AppendOk(outcomes),
     calls |-> [k \in 1..AppendAttempts(outcomes) |-> [c |-> "append", arg |-> <<>>]]]

\* the key column taken to be the first column when no header names it
KeyColumn_FirstWhenAbsent(current_headers) ==
    IF Contains(current_headers, KeyField) THEN IndexOf(current_headers, KeyField) ELSE 1

\* current_headers.index('drive_file_id') as a column number; 0 stands for ValueError
KeyColumn(current_headers) == IndexOf(current_headers, KeyField)

\* rows_to_delete left in ascending order: each deletion shifts the rows after it
RowsToDelete_Ascending(values, file_id) ==
    LET col == KeyColumn(values[1])
        keep == {i \in 2..Len(values) : Len(values[i]) >= col /\ values[i][col] = file_id}
    IN  SelectIdx(Len(values), 2, keep)

\* rows_to_delete of _replace_rows_for_file, sorted(reverse=True): sheet row numbers (2 = first body row)
RowsToDelete(values, file_id) ==
    LET col == KeyColumn(values[1])
        keep == {i \in 2..Len(values) : Len(values[i]) >= col /\ values[i][col] = file_id}
    IN  Reverse(SelectIdx(Len(values), 2, keep))

\* one deletion from the lowest to the highest position named, whatever lies between
ApplyDeletes_Span(sh, idxs) ==
    IF idxs = <<>> THEN sh
    ELSE SubSeq(sh, 1, idxs[Len(idxs)] - 1) \o SubSeq(sh, idxs[1] + 1, Len(sh))

\* the deleteDimension requests of one batchUpdate, applied in the order given
RECURSIVE ApplyDeletes(_, _)
ApplyDeletes(sh, idxs) ==
    IF idxs = <<>> THEN sh
    ELSE LET s1 == IF idxs[1] =< Len(sh) THEN RemoveAt(sh, idxs[1]) ELSE sh
             rest == Tail(idxs)
         IN  ApplyDeletes(s1, rest)

\* _replace_rows_for_file
ReplaceRowsForFile(sh, file_id, new_rows, env) ==
    LET values == GetSheetData(sh, env.dataReadFail)
        readCall == <<[c |-> "getData", arg |-> <<>>]>>
        plain == AppendToGoogleSheet(sh, new_rows, file_id, env.append)
        direct == [sheet |-> plain.sheet, ok |-> plain.ok, calls |-> readCall \o plain.calls,
                   values |-> values]
    IN  IF values = <<>> \/ KeyColumn(values[1]) = 0
        THEN direct
        ELSE LET del == RowsToDelete(values, file_id)
                 delCall == <<[c |-> "delete", arg |-> del]>>
             IN  IF del = <<>> THEN direct
                 ELSE IF env.deleteFail
                 THEN [sheet |-> sh, ok |-> FALSE, calls |-> readCall \o delCall, values |-> values]
                 ELSE LET s1 == IF env.wrongSheetId THEN sh ELSE ApplyDeletes(sh, del)
                          app == AppendToGoogleSheet(s1, new_rows, file_id, env.append)
                      IN  [sheet |-> app.sheet, ok |-> app.ok,
                           calls |-> readCall \o delCall \o app.calls, values |-> values]

\* _save_to_sheets: env.order is the order list(set(...)) gives the batch's field names
SaveToSheets(sh, rows, file_id, env) ==
    IF rows = <<>>
    THEN [sheet |-> sh, ok |-> FALSE, calls |-> <<>>, values |-> <<>>,
          existing_headers |-> <<>>, all_headers |-> <<>>]
    ELSE LET existing_headers == GetSheetHeaders(sh, env.hdrReadFail)
             all_headers == Reconcile(existing_headers, env.order)
             write == HeadersChanged(existing_headers, all_headers)
             s1 == IF write THEN UpdateHeaders(sh, all_headers, env.hdrWriteFail) ELSE sh
             hcalls == <<[c |-> "getHeaders", arg |-> <<>>]>>
                       \o (IF write THEN <<[c |-> "updateHeaders", arg |-> all_headers]>> ELSE <<>>)
             rep == ReplaceRowsForFile(s1, file_id, AlignRows(rows, all_headers), env)
         IN  [sheet |-> rep.sheet, ok |-> rep.ok, calls |-> hcalls \o rep.calls,
              values |-> rep.values,
              existing_headers |-> existing_headers, all_headers |-> all_headers]

\* The remote outcomes of one save: which calls fail, and the order list(set(...)) gives
\* the batch's field names. A call that is not issued has no outcome (its flag is FALSE).
AllOk == <<TRUE, TRUE, TRUE>>

AppendOutcomes == {AllOk, <<FALSE, TRUE, TRUE>>, <<FALSE, FALSE, TRUE>>, <<FALSE, FALSE, FALSE>>}

\* one order of the key set for each header list its orders can produce: only the
\* relative order of the fields missing from the existing headers matters
OrderReps(existing_headers, keys) ==
    IF existing_headers = <<>> THEN Perms(keys)
    ELSE LET present == {k \in keys : Contains(existing_headers, k)}
             rest == CHOOSE q \in Perms(present) : TRUE
         IN  {p \o rest : p \in Perms(keys \ present)}

B2N(b) == IF b THEN 1 ELSE 0

\* The outcomes a call may have when `left` more remote failures fit the behaviour.
MayFail(left) == IF left > 0 THEN BOOLEAN ELSE {FALSE}

\* the delete request of a save: <<it fails, it lands on sheet id 0 (_get_sheet_id failed)>>
DeleteOutcomes(sh, file_id, dataReadFail, left) ==
    LET values == GetSheetData(sh, dataReadFail)
    IN  IF left =< 0 \/ values = <<>> \/ KeyColumn(values[1]) = 0
           \/ RowsToDelete(values, file_id) = <<>>
        THEN {<<FALSE, FALSE>>}
        ELSE {<<FALSE, FALSE>>, <<TRUE, FALSE>>, <<FALSE, TRUE>>}

\* remote calls of one save that failed (an append that needed a retry counts once)
FaultCount(env) ==
    B2N(env.hdrReadFail) + B2N(env.hdrWriteFail) + B2N(env.dataReadFail) + B2N(env.deleteFail)
    + B2N(env.wrongSheetId) + B2N(env.append # AllOk)

NoFailure(env) == FaultCount(env) = 0

NoEnv == [hdrReadFail |-> FALSE, order |-> <<>>, hdrWriteFail |-> FALSE, dataReadFail |-> FALSE,
          deleteFail |-> FALSE, wrongSheetId |-> FALSE, append |-> AllOk]

\* every outcome of the remote calls one save of `rows` issues, with at most `left` failures
SaveEnvs(sh, f, rows, left) ==
    UNION {
      LET existing_headers == GetSheetHeaders(sh, hr)
          left1 == left - B2N(hr)
      IN  UNION {
            LET all_headers == Reconcile(existing_headers, o)
            IN  UNION {
                  LET s1 == UpdateHeaders(sh, all_headers, hw)
                      left2 == left1 - B2N(hw)
                  IN  UNION {
                        UNION {
                          {[hdrReadFail |-> hr, order |-> o, hdrWriteFail |-> hw, dataReadFail |-> dr,
                            deleteFail |-> d[1], wrongSheetId |-> d[2], append |-> ap]
                             : ap \in IF d[1] \/ left2 - B2N(dr) - B2N(d[2]) =< 0
                                      THEN {AllOk} ELSE AppendOutcomes}
                          : d \in DeleteOutcomes(s1, f, dr, left2 - B2N(dr))}
                        : dr \in MayFail(left2)}
                  : hw \in IF HeadersChanged(existing_headers, all_headers) THEN MayFail(left1) ELSE {FALSE}}
            : o \in OrderReps(existing_headers, KeyUnion(rows))}
      : hr \in MayFail(left)}

(***************************************************************************)
(* Google Drive: folders and files                                         *)
(***************************************************************************)
RootId == "root"            \* CONFIG['gmail']['gdrive_folder_id']
MyDrive == "mydrive"        \* where Drive puts a folder created without parents
NoId == ""                  \* the falsy id: no parent given, or the guard's failure result
FolderIds == <<"f1", "f2", "f3", "f4", "f5", "f6">>    \* the ids Drive hands out, in order
BaseFolderName == "Gmail_Attachments"
SearchFolderName == "grn"   \* config['search_term']

EmptyDrive == [folders |-> {}, files |-> {}]

\* files().list(q="name=... and mimeType=folder and trashed=false [and parent in parents]")
FolderMatches(d, folder_name, parent_folder_id) ==
    {f \in d.folders : f.name = folder_name /\ (parent_folder_id = NoId \/ f.parent = parent_folder_id)}

\* A guard that never looks: every call creates the folder.
CreateDriveFolder_AlwaysCreate(d, folder_name, parent_folder_id, env) ==
    IF env.createFail THEN [drive |-> d, id |-> NoId, creates |-> 1, fails |-> 1]
    ELSE LET newId == FolderIds[Cardinality(d.folders) + 1]
             parent == IF parent_folder_id = NoId THEN MyDrive ELSE parent_folder_id
         IN  [drive |-> [d EXCEPT !.folders = @ \cup {[id |-> newId, name |-> folder_name, parent |-> parent]}],
              id |-> newId, creates |-> 1, fails |-> 0]

\* _create_drive_folder: env.pick is the id of files[0] when the list has a hit
CreateDriveFolder(d, folder_name, parent_folder_id, env) ==
    LET files == FolderMatches(d, folder_name, parent_folder_id)
        newId == FolderIds[Cardinality(d.folders) + 1]
        parent == IF parent_folder_id = NoId THEN MyDrive ELSE parent_folder_id
    IN  IF env.listFail THEN [drive |-> d, id |-> NoId, creates |-> 0, fails |-> 1]
        ELSE IF files # {} THEN [drive |-> d, id |-> env.pick, creates |-> 0, fails |-> 0]
        ELSE IF env.createFail THEN [drive |-> d, id |-> NoId, creates |-> 1, fails |-> 1]
        ELSE [drive |-> [d EXCEPT !.folders = @ \cup {[id |-> newId, name |-> folder_name, parent |-> parent]}],
              id |-> newId, creates |-> 1, fails |-> 0]

\* the outcomes of the remote calls of one guard call, with at most `left` failures
FolderEnvs(d, folder_name, parent_folder_id, left) ==
    LET files == FolderMatches(d, folder_name, parent_folder_id)
    IN  {[listFail |-> FALSE, createFail |-> FALSE, pick |-> p] :
            p \in IF files = {} THEN {NoId} ELSE {f.id : f \in files}}
        \cup (IF left > 0 THEN {[listFail |-> TRUE, createFail |-> FALSE, pick |-> NoId]} ELSE {})
        \cup (IF left > 0 /\ files = {}
              THEN {[listFail |-> FALSE, createFail |-> TRUE, pick |-> NoId]} ELSE {})

FilesNamed(d, filename, folder_id) == {f \in d.files : f.name = filename /\ f.parent = folder_id}

\* _file_exists_in_folder: False when the query raises (a query on the empty folder id raises)
FileExistsInFolder(d, filename, folder_id, fail) ==
    IF fail \/ folder_id = NoId THEN FALSE ELSE FilesNamed(d, filename, folder_id) # {}

\* files().create(body={name, parents}, media_body): raises on failure and on the empty parent id
UploadOk(folder_id, fail) == ~fail /\ folder_id # NoId

Upload(d, filename, folder_id) ==
    [d EXCEPT !.files = @ \cup {[name |-> filename, parent |-> folder_id,
                                  copy |-> Cardinality(FilesNamed(d, filename, folder_id)) + 1]}]

(***************************************************************************)
(* Emails and their attachments                                            *)
(***************************************************************************)
\* a part of a payload: filename and whether its body has an attachmentId
TextPart == [filename |-> "", attachmentId |-> FALSE]

Att(filename) == [filename |-> filename, attachmentId |-> TRUE]

\* message['payload']['parts'] of the emails of the mailbox
Payload(message_id) ==
    IF message_id = "e1" THEN <<TextPart, Att("a.pdf"), Att("b:1.pdf")>> ELSE <<Att("a.pdf")>>

\* what messages().list returns when it succeeds
SearchResults == {<<"e1", "e2">>, <<"e2">>}

\* re.sub(r'[<>:"/\\|?*]', '_', filename) on the file names of the mailbox (none is over 100 long)
SanitizeFilename(filename) == IF filename = "b:1.pdf" THEN "b_1.pdf" ELSE filename

\* filename.split(".")[-1].lower() looked up in type_map
ClassifyExtension(filename) ==
    IF filename \in {"a.pdf", "b:1.pdf"} THEN "PDFs" ELSE "Other"

NoLeafEnv == [attFail |-> FALSE,
              s |-> [listFail |-> FALSE, createFail |-> FALSE, pick |-> NoId],
              t |-> [listFail |-> FALSE, createFail |-> FALSE, pick |-> NoId],
              existsFail |-> FALSE, uploadFail |-> FALSE]

\* _extract_attachments_from_email on a part without parts: one attachment
ExtractLeaf(d, part, base_folder_id, env) ==
    IF part.filename = "" \/ ~part.attachmentId
    THEN [drive |-> d, count |-> 0, fails |-> 0, atts |-> <<>>]
    ELSE IF env.attFail
    THEN [drive |-> d, count |-> 0, fails |-> 1,
          atts |-> <<[filename |-> part.filename, queried |-> FALSE, queryFail |-> FALSE,
                      present |-> FALSE, uploadIssued |-> FALSE, uploaded |-> FALSE,
                      guardFail |-> FALSE, folder |-> NoId]>>]
    ELSE LET s == CreateDriveFolder(d, SearchFolderName, base_folder_id, env.s)
             t == CreateDriveFolder(s.drive, ClassifyExtension(part.filename), s.id, env.t)
             final_filename == SanitizeFilename(part.filename)
             queryFail == env.existsFail \/ t.id = NoId
             exists == FileExistsInFolder(t.drive, final_filename, t.id, env.existsFail)
             ok == ~exists /\ UploadOk(t.id, env.uploadFail)
         IN  [drive |-> IF ok THEN Upload(t.drive, final_filename, t.id) ELSE t.drive,
              count |-> IF ok THEN 1 ELSE 0,
              fails |-> s.fails + t.fails + B2N(env.existsFail) + B2N(~exists /\ env.uploadFail),
              atts |-> <<[filename |-> final_filename, queried |-> TRUE, queryFail |-> queryFail,
                          present |-> FilesNamed(t.drive, final_filename, t.id) # {},
                          uploadIssued |-> ~exists, uploaded |-> ok,
                          guardFail |-> s.fails + t.fails > 0, folder |-> t.id]>>]

\* every outcome of one attachment, with at most `left` failed remote calls
LeafOutcomes(d, part, base_folder_id, left) ==
    IF part.filename = "" \/ ~part.attachmentId THEN {ExtractLeaf(d, part, base_folder_id, NoLeafEnv)}
    ELSE (IF left > 0 THEN {ExtractLeaf(d, part, base_folder_id, [NoLeafEnv EXCEPT !.attFail = TRUE])} ELSE {})
         \cup UNION {
           LET s == CreateDriveFolder(d, SearchFolderName, base_folder_id, se)
           IN  UNION {
                 LET t == CreateDriveFolder(s.drive, ClassifyExtension(part.filename), s.id, te)
                     left2 == left - s.fails - t.fails
                 IN  UNION {
                       {ExtractLeaf(d, part, base_folder_id,
                                    [attFail |-> FALSE, s |-> se, t |-> te, existsFail |-> xf, uploadFail |-> uf])
                          : uf \in IF t.id # NoId /\ ~FileExistsInFolder(t.drive, SanitizeFilename(part.filename), t.id, xf)
                                   THEN MayFail(left2 - B2N(xf)) ELSE {FALSE}}
                       : xf \in IF t.id # NoId THEN MayFail(left2) ELSE {FALSE}}
                 : te \in FolderEnvs(s.drive, ClassifyExtension(part.filename), s.id, left - s.fails)}
           : se \in FolderEnvs(d, SearchFolderName, base_folder_id, left)}

\* _extract_attachments_from_email on a payload with parts: every outcome of the loop
RECURSIVE ExtractAttachments(_, _, _, _)
ExtractAttachments(d, parts, base_folder_id, left) ==
    IF parts = <<>> THEN {[drive |-> d, count |-> 0, fails |-> 0, atts |-> <<>>]}
    ELSE LET rest == Tail(parts)
         IN  UNION {
               {[drive |-> r.drive, count |-> l.count + r.count, fails |-> l.fails + r.fails,
                 atts |-> l.atts \o r.atts]
                  : r \in ExtractAttachments(l.drive, rest, base_folder_id, left - l.fails)}
               : l \in LeafOutcomes(d, parts[1], base_folder_id, left)}

(***************************************************************************)
(* retry_wrapper                                                           *)
(***************************************************************************)
IdleRetry == [attempt |-> 0, outcomes |-> <<>>, warnings |-> 0, status |-> "idle", result |-> <<>>]

StartRetry == [attempt |-> 1, outcomes |-> <<>>, warnings |-> 0, status |-> "running", result |-> <<>>]

\* A loop that allows one attempt more.
RetryStep_OneMore(rt, ok, value) ==
    IF ok THEN [rt EXCEPT !.outcomes = Append(@, TRUE), !.status = "returned", !.result = value]
    ELSE IF rt.attempt < MAX_RETRIES + 1
    THEN [rt EXCEPT !.outcomes = Append(@, FALSE), !.warnings = @ + 1, !.attempt = @ + 1]
    ELSE [rt EXCEPT !.outcomes = Append(@, FALSE), !.warnings = @ + 1, !.status = "raised"]

\* one iteration of the for loop of retry_wrapper: func returns value (ok) or raises
RetryStep(rt, ok, value) ==
    IF ok THEN [rt EXCEPT !.outcomes = Append(@, TRUE), !.status = "returned", !.result = value]
    ELSE IF rt.attempt < MAX_RETRIES
    THEN [rt EXCEPT !.outcomes = Append(@, FALSE), !.warnings = @ + 1, !.attempt = @ + 1]
    ELSE [rt EXCEPT !.outcomes = Append(@, FALSE), !.warnings = @ + 1, !.status = "raised"]

(***************************************************************************)
(* processed_state.json                                                    *)
(***************************************************************************)
\* A value stored under a key of the file: a list of ids, a string (ids holds its
\* characters), a number, or no such key.
NoValue == [t |-> "absent", ids |-> {}]

IdList(ids) == [t |-> "list", ids |-> ids]

\* The file: missing, empty (opened for writing and not yet written), a JSON array, or
\* a JSON object with its two values.
NoFile == [kind |-> "missing", emails |-> NoValue, pdfs |-> NoValue]

TruncatedFile == [kind |-> "empty", emails |-> NoValue, pdfs |-> NoValue]

ArrayFile == [kind |-> "array", emails |-> NoValue, pdfs |-> NoValue]

ObjectFile(emails, pdfs) == [kind |-> "object", emails |-> emails, pdfs |-> pdfs]

\* set(state.get(key, [])): the ids of a list, the characters of a string, the empty
\* set for a missing key; a number is not iterable
SetOfRaises(v) == v.t = "number"

SetOf(v) == v.ids

\* _load_processed_state on the empty sets of __init__: the two assignments run in order
\* and an exception ends the method with what was assigned so far
LoadProcessedState(file) ==
    IF file.kind # "object" THEN [emails |-> {}, pdfs |-> {}, raised |-> file.kind # "missing"]
    ELSE IF SetOfRaises(file.emails) THEN [emails |-> {}, pdfs |-> {}, raised |-> TRUE]
    ELSE IF SetOfRaises(file.pdfs) THEN [emails |-> SetOf(file.emails), pdfs |-> {}, raised |-> TRUE]
    ELSE [emails |-> SetOf(file.emails), pdfs |-> SetOf(file.pdfs), raised |-> FALSE]

\* _save_processed_state: open(file, 'w') empties the file, json.dump writes the object.
\* how = "written": both done; "opened": ended after the open (json.dump raised, or the
\* process was killed); "refused": open raised.
SaveProcessedState(file, emails, pdfs, how) ==
    IF how = "written" THEN ObjectFile(IdList(emails), IdList(pdfs))
    ELSE IF how = "opened" THEN TruncatedFile
    ELSE file

\* no process is running
NoProcess == [pc |-> "off", n |-> 0, status |-> "none", gmail |-> "none", pdf |-> "none",
              saved_emails |-> {}, saved_pdfs |-> {}, emails0 |-> {}, pdfs0 |-> {}, file0 |-> NoFile, pdf_pdfs |-> 0]

(***************************************************************************)
(* The state after construction                                            *)
(***************************************************************************)
\* self.current_stats of __init__ and reset_stats
ZeroStats ==
    [gmail |-> [processed_emails |-> 0, total_attachments |-> 0, successful_uploads |-> 0, failed_uploads |-> 0],
     pdf |-> [total_pdfs |-> 0, processed_pdfs |-> 0, skipped_pdfs |-> 0, failed_pdfs |-> 0, rows_added |-> 0]]

NoOp == [kind |-> "none", clean |-> FALSE]

IdleRun == [pc |-> "idle", n |-> 0, result |-> "none"]

Init ==
    /\ sheet = <<>> /\ op = NoOp /\ faults = 0
    /\ drive = EmptyDrive /\ fop = <<>>
    /\ processed_emails = {} /\ processed_pdfs = {}
    /\ stats = ZeroStats /\ run = IdleRun /\ retry = IdleRetry
    /\ state_file = NoFile /\ logsheet = <<>> /\ main = NoProcess /\ logs = <<>>

(***************************************************************************)
(* SaveSpec: _save_to_sheets applied to the main sheet                     *)
(***************************************************************************)
\* the calls of one save that are header writes
HeaderWrites(calls) == {i \in 1..Len(calls) : calls[i].c = "updateHeaders"}

SaveWith(f, data, rows, env) ==
    LET res == SaveToSheets(sheet, rows, f, env) IN
    /\ Len(res.sheet) =< MaxSheetRows
    /\ faults' = faults + FaultCount(env)
    /\ sheet' = res.sheet
    /\ op' = [kind |-> "save", file |-> f, data |-> data, rows |-> rows,
              clean |-> rows # <<>> /\ NoFailure(env),
              existing_headers |-> res.existing_headers, all_headers |-> res.all_headers,
              hdrWrite |-> HeaderWrites(res.calls) # {},
              calls |-> res.calls, values |-> res.values, env |-> env, ok |-> res.ok,
              again |-> op.kind = "save" /\ op.clean /\ op.file = f /\ op.rows = rows]
    /\ UNCHANGED <<drive, fop, processed_emails, processed_pdfs, stats, run, retry>>
    /\ UNCHANGED <<state_file, logsheet, main, logs>>

\* One call of _save_to_sheets, with every outcome of the remote calls it issues.
SaveStep ==
    \E f \in Docs, data \in Extractions :
        LET rows == ProcessExtractedData(data, f) IN
        IF rows = <<>> THEN SaveWith(f, data, rows, NoEnv)
        ELSE \E env \in SaveEnvs(sheet, f, rows, MaxFaults - faults) : SaveWith(f, data, rows, env)

SaveNext == SaveStep

SaveSpec == Init /\ [][SaveNext]_vars

(***************************************************************************)
(* StoredSpec: _save_to_sheets applied to a main sheet that has rows       *)
(***************************************************************************)
\* what the main sheet may hold before the program first writes to it: rows under a
\* header that does not name the key column
StoredSheets == {
    <<[cells |-> <<"qty">>, src |-> HeaderSrc], [cells |-> <<"2">>, src |-> "stored"]>>,
    <<[cells |-> <<"file", "qty">>, src |-> HeaderSrc], [cells |-> <<"p1", "2">>, src |-> "stored"],
      [cells |-> <<"p2">>, src |-> "stored"]>>
}

StoredInit ==
    /\ sheet \in StoredSheets /\ op = NoOp /\ faults = 0
    /\ drive = EmptyDrive /\ fop = <<>>
    /\ processed_emails = {} /\ processed_pdfs = {}
    /\ stats = ZeroStats /\ run = IdleRun /\ retry = IdleRetry
    /\ state_file = NoFile /\ logsheet = <<>> /\ main = NoProcess /\ logs = <<>>

StoredSpec == StoredInit /\ [][SaveNext]_vars

(***************************************************************************)
(* FolderSpec: _create_drive_folder called directly                        *)
(***************************************************************************)
FolderNames == {SearchFolderName, "PDFs"}

\* One call of the folder guard; fop keeps the calls made, in order.
FolderCall ==
    /\ Len(fop) < MaxFolderCalls
    /\ Cardinality(drive.folders) < Len(FolderIds)
    /\ \E folder_name \in FolderNames, parent_folder_id \in {NoId, RootId} \cup {f.id : f \in drive.folders} :
       \E env \in FolderEnvs(drive, folder_name, parent_folder_id, MaxFaults - faults) :
          LET res == CreateDriveFolder(drive, folder_name, parent_folder_id, env) IN
          /\ drive' = res.drive
          /\ faults' = faults + res.fails
          /\ fop' = Append(fop, [name |-> folder_name, parent |-> parent_folder_id, id |-> res.id,
                                 creates |-> res.creates, fails |-> res.fails])
    /\ UNCHANGED <<sheet, op, processed_emails, processed_pdfs, stats, run, retry>>
    /\ UNCHANGED <<state_file, logsheet, main, logs>>

FolderNext == FolderCall

FolderSpec == Init /\ [][FolderNext]_vars

(***************************************************************************)
(* GmailSpec: runs of process_gmail_workflow                               *)
(***************************************************************************)
RunOver == run.pc \in {"idle", "done"}

\* a new process starts process_gmail_workflow: the stats are fresh, the ledger is the stored one
GmailStart ==
    /\ RunOver /\ run.n < MaxRuns
    /\ run' = [pc |-> "search", n |-> run.n + 1, result |-> "none", emails |-> <<>>, i |-> 0, base |-> NoId]
    /\ retry' = StartRetry
    /\ stats' = ZeroStats
    /\ op' = NoOp
    /\ UNCHANGED <<sheet, drive, fop, processed_emails, processed_pdfs, faults>>
    /\ UNCHANGED <<state_file, logsheet, main, logs>>

\* one attempt of retry_wrapper(_search)
SearchAttempt ==
    /\ run.pc = "search" /\ retry.status = "running"
    /\ \E ok \in BOOLEAN, messages \in SearchResults :
          retry' = RetryStep(retry, ok, IF ok THEN messages ELSE <<>>)
    /\ UNCHANGED <<sheet, op, drive, fop, processed_emails, processed_pdfs, stats, run, faults>>
    /\ UNCHANGED <<state_file, logsheet, main, logs>>

\* search_emails returns; the workflow counts the emails and guards the base folder
SearchDone ==
    /\ run.pc = "search" /\ retry.status \in {"returned", "raised"}
    /\ LET emails == IF retry.status = "returned" THEN retry.result ELSE <<>> IN
       /\ stats' = [stats EXCEPT !.gmail.processed_emails = Len(emails)]
       /\ IF emails = <<>>
          THEN /\ run' = [run EXCEPT !.pc = "done", !.result = "success"]
               /\ UNCHANGED <<drive, faults>>
          ELSE \E env \in FolderEnvs(drive, BaseFolderName, RootId, MaxFaults - faults) :
                  LET g == CreateDriveFolder(drive, BaseFolderName, RootId, env) IN
                  /\ drive' = g.drive
                  /\ faults' = faults + g.fails
                  /\ run' = IF g.id = NoId
                            THEN [run EXCEPT !.pc = "done", !.result = "failed"]
                            ELSE [run EXCEPT !.pc = "emails", !.emails = emails, !.i = 1, !.base = g.id]
    /\ UNCHANGED <<sheet, op, fop, processed_emails, processed_pdfs, retry>>
    /\ UNCHANGED <<state_file, logsheet, main, logs>>

NoEmailOp(id) ==
    [kind |-> "email", id |-> id, skipped |-> FALSE, raised |-> FALSE, payload |-> FALSE,
     count |-> 0, marked |-> FALSE, atts |-> <<>>]

\* every email that was looked at is marked, whatever it brought
MarksEmail_Always(attachment_count) == attachment_count >= 0

\* if attachment_count > 0: the email is added to processed_emails and the ledger saved
MarksEmail(attachment_count) == attachment_count > 0

\* one iteration of the loop over the emails
EmailStep ==
    /\ run.pc = "emails" /\ run.i =< Len(run.emails)
    /\ run' = [run EXCEPT !.i = @ + 1]
    /\ LET id == run.emails[run.i] IN
       IF id \in processed_emails
       THEN /\ op' = [NoEmailOp(id) EXCEPT !.skipped = TRUE]
            /\ UNCHANGED <<drive, processed_emails, stats, faults, state_file>>
       ELSE \/ /\ faults < MaxFaults       \* messages().get raises (_get_email_details only logs)
               /\ faults' = faults + 1
               /\ stats' = [stats EXCEPT !.gmail.failed_uploads = @ + 1]
               /\ op' = [NoEmailOp(id) EXCEPT !.raised = TRUE]
               /\ UNCHANGED <<drive, processed_emails, state_file>>
            \/ /\ op' = NoEmailOp(id)      \* the message has no payload
               /\ UNCHANGED <<drive, processed_emails, stats, faults, state_file>>
            \/ \E r \in ExtractAttachments(drive, Payload(id), run.base, MaxFaults - faults) :
               /\ drive' = r.drive
               /\ faults' = faults + r.fails
               /\ stats' = [stats EXCEPT !.gmail.total_attachments = @ + r.count,
                                         !.gmail.successful_uploads = @ + r.count]
               /\ processed_emails' = IF MarksEmail(r.count) THEN processed_emails \cup {id}
                                      ELSE processed_emails
               /\ state_file' = IF MarksEmail(r.count)
                                THEN SaveProcessedState(state_file, processed_emails \cup {id}, processed_pdfs, "written")
                                ELSE state_file
               /\ op' = [NoEmailOp(id) EXCEPT !.payload = TRUE, !.count = r.count,
                                              !.marked = MarksEmail(r.count), !.atts = r.atts]
    /\ UNCHANGED <<sheet, fop, processed_pdfs, retry, logsheet, main, logs>>

\* the loop is over: the workflow returns success
GmailFinish ==
    /\ run.pc = "emails" /\ run.i > Len(run.emails)
    /\ run' = [run EXCEPT !.pc = "done", !.result = "success"]
    /\ UNCHANGED <<sheet, op, drive, fop, processed_emails, processed_pdfs, stats, retry, faults>>
    /\ UNCHANGED <<state_file, logsheet, main, logs>>

GmailNext == GmailStart \/ SearchAttempt \/ SearchDone \/ EmailStep \/ GmailFinish

GmailSpec == Init /\ [][GmailNext]_vars

(***************************************************************************)
(* PdfSpec: runs of process_pdf_workflow                                   *)
(***************************************************************************)
\* what _list_drive_files finds in the folder, newest first
Listings == {<<"p1">>, <<"p2", "p1">>}

\* _list_drive_files: [] on failure
ListDriveFiles(folder, fail) == IF fail THEN <<>> ELSE folder

\* get_existing_drive_ids: the non-empty cells under the drive_file_id column; set() on failure
GetExistingDriveIds(sh, fail) ==
    LET values == GetSheetData(sh, fail)
    IN  IF values = <<>> THEN {}
        ELSE IF ~Contains(values[1], KeyField) THEN {}
        ELSE LET id_index == IndexOf(values[1], KeyField)
             IN  {values[i][id_index] : i \in {j \in 2..Len(values) :
                     Len(values[j]) >= id_index /\ values[j][id_index] # ""}}

\* [f for f in pdf_files if f['id'] not in existing_ids]
FilterFiles(pdf_files, existing_ids) ==
    LET keep == {i \in 1..Len(pdf_files) : pdf_files[i] \notin existing_ids}
        idx == SelectIdx(Len(pdf_files), 1, keep)
    IN  [k \in 1..Len(idx) |-> pdf_files[idx[k]]]

\* every listed document counted as skipped, those kept for processing too
SkippedPdfs_AllListed(total_pdfs, pdf_files) == total_pdfs

\* skipped_pdfs = total_pdfs - len(pdf_files), pdf_files being the list after the filter
SkippedPdfs(total_pdfs, pdf_files) == total_pdfs - Len(pdf_files)

\* process_pdf_workflow up to its loop: startup checks, existing ids, listing, filter, limit;
\* n numbers the run, base are the stats the workflow finds
PdfBegin(n, base) ==
    /\ op' = NoOp
    /\ \E startup_ok \in BOOLEAN, skip_existing \in {DEFAULT_SKIP_EXISTING} :
       IF ~startup_ok
       THEN /\ run' = [pc |-> "done", n |-> n, result |-> "failed", files |-> <<>>, i |-> 0,
                       listed |-> <<>>, ledger0 |-> processed_pdfs, skip_existing |-> skip_existing]
            /\ stats' = base
            /\ UNCHANGED faults
       ELSE \E idsFail \in IF skip_existing THEN MayFail(MaxFaults - faults) ELSE {FALSE} :
            \E listFail \in MayFail(MaxFaults - faults - B2N(idsFail)) :
            \E pdf_files \in {ListDriveFiles(folder, listFail) : folder \in Listings} :
               LET existing_ids == IF skip_existing THEN GetExistingDriveIds(sheet, idsFail) ELSE {}
                   filtered == IF skip_existing THEN FilterFiles(pdf_files, existing_ids) ELSE pdf_files
                   limited == SubSeq(filtered, 1, Min(Len(filtered), PdfMaxFiles))
               IN  /\ faults' = faults + B2N(idsFail) + B2N(listFail)
                   /\ stats' = [base EXCEPT
                                  !.pdf.total_pdfs = Len(pdf_files),
                                  !.pdf.skipped_pdfs = IF skip_existing THEN SkippedPdfs(Len(pdf_files), filtered)
                                                       ELSE base.pdf.skipped_pdfs]
                   /\ run' = [pc |-> IF limited = <<>> THEN "done" ELSE "files", n |-> n,
                              result |-> IF limited = <<>> THEN "success" ELSE "none",
                              files |-> limited, i |-> 1, listed |-> pdf_files,
                              ledger0 |-> processed_pdfs, skip_existing |-> skip_existing]

\* a new process starts process_pdf_workflow with fresh stats
PdfStart ==
    /\ RunOver /\ run.n < MaxRuns
    /\ PdfBegin(run.n + 1, ZeroStats)
    /\ UNCHANGED <<sheet, drive, fop, processed_emails, processed_pdfs, retry>>
    /\ UNCHANGED <<state_file, logsheet, main, logs>>

NoPdfOp(f) ==
    [kind |-> "pdf", file |-> f, skipped |-> FALSE, calls |-> 0, failed |-> FALSE, rows |-> <<>>,
     saved |-> FALSE, clean |-> FALSE, marked |-> FALSE, readFail |-> FALSE]

\* one iteration of the loop over the PDF files
PdfFile ==
    /\ run.pc = "files" /\ run.i =< Len(run.files)
    /\ run' = [run EXCEPT !.i = @ + 1]
    /\ LET f == run.files[run.i] IN
       IF f \in processed_pdfs
       THEN /\ op' = [NoPdfOp(f) EXCEPT !.skipped = TRUE]
            /\ UNCHANGED <<sheet, processed_pdfs, stats, faults, state_file>>
       ELSE \/ /\ faults < MaxFaults       \* the download fails: b""
               /\ faults' = faults + 1
               /\ stats' = [stats EXCEPT !.pdf.failed_pdfs = @ + 1]
               /\ op' = [NoPdfOp(f) EXCEPT !.calls = 1, !.failed = TRUE]
               /\ UNCHANGED <<sheet, processed_pdfs, state_file>>
            \/ /\ faults < MaxFaults       \* agent.extract raises
               /\ faults' = faults + 1
               /\ stats' = [stats EXCEPT !.pdf.failed_pdfs = @ + 1]
               /\ op' = [NoPdfOp(f) EXCEPT !.calls = 2, !.failed = TRUE]
               /\ UNCHANGED <<sheet, processed_pdfs, state_file>>
            \/ \E data \in Extractions :
               LET rows == ProcessExtractedData(data, f) IN
               IF rows = <<>>
               THEN /\ op' = [NoPdfOp(f) EXCEPT !.calls = 2]
                    /\ UNCHANGED <<sheet, processed_pdfs, stats, faults, state_file>>
               ELSE \E env \in SaveEnvs(sheet, f, rows, MaxFaults - faults) :
                    LET res == SaveToSheets(sheet, rows, f, env) IN
                    /\ sheet' = res.sheet
                    /\ faults' = faults + FaultCount(env)
                    /\ stats' = [stats EXCEPT !.pdf.processed_pdfs = @ + 1,
                                              !.pdf.rows_added = @ + Len(rows)]
                    /\ processed_pdfs' = processed_pdfs \cup {f}
                    /\ state_file' = SaveProcessedState(state_file, processed_emails, processed_pdfs \cup {f}, "written")
                    /\ op' = [NoPdfOp(f) EXCEPT !.calls = 3 + Len(res.calls), !.rows = rows, !.saved = res.ok,
                                                !.clean = NoFailure(env), !.marked = TRUE,
                                                !.readFail = env.hdrReadFail \/ env.dataReadFail]
    /\ UNCHANGED <<drive, fop, processed_emails, retry, logsheet, main, logs>>

\* the loop is over: the workflow returns success
PdfFinish ==
    /\ run.pc = "files" /\ run.i > Len(run.files)
    /\ run' = [run EXCEPT !.pc = "done", !.result = "success"]
    /\ UNCHANGED <<sheet, op, drive, fop, processed_emails, processed_pdfs, stats, retry, faults>>
    /\ UNCHANGED <<state_file, logsheet, main, logs>>

PdfNext == PdfStart \/ PdfFile \/ PdfFinish

PdfSpec == Init /\ [][PdfNext]_vars

(***************************************************************************)
(* LedgerSpec: processes that load, extend and save processed_state.json   *)
(***************************************************************************)
Emails == {"e1", "e2"}              \* Gmail message ids

NumberValue == [t |-> "number", ids |-> {}]

\* what a process may find in processed_state.json when it starts
StoredFiles == {
    NoFile, TruncatedFile, ArrayFile,
    ObjectFile(IdList({"e1"}), IdList({"p1"})),
    ObjectFile(IdList({"e1"}), NumberValue),
    ObjectFile(NumberValue, IdList({"p1"})),
    ObjectFile(NoValue, IdList({"p1"})),
    ObjectFile([t |-> "string", ids |-> {"e", "1"}], IdList({}))
}

LedgerInit ==
    /\ sheet = <<>> /\ op = NoOp /\ faults = 0
    /\ drive = EmptyDrive /\ fop = <<>>
    /\ processed_emails = {} /\ processed_pdfs = {}
    /\ stats = ZeroStats /\ run = IdleRun /\ retry = IdleRetry
    /\ state_file \in StoredFiles /\ logsheet = <<>> /\ main = NoProcess /\ logs = <<>>

\* RelianceAutomation(): the sets start empty and _load_processed_state fills them
Construct ==
    /\ main.pc = "off" /\ main.n < MaxStarts
    /\ LET l == LoadProcessedState(state_file) IN
       /\ processed_emails' = l.emails
       /\ processed_pdfs' = l.pdfs
       /\ op' = [kind |-> "load", clean |-> ~l.raised, file |-> state_file]
    /\ main' = [main EXCEPT !.pc = "up", !.n = @ + 1]
    /\ stats' = ZeroStats
    /\ UNCHANGED <<sheet, drive, fop, run, retry, faults, state_file, logsheet, logs>>

\* a unit is marked and the ledger saved (processed_emails.add / processed_pdfs.add, then
\* _save_processed_state); the process may be killed while the file is open for writing
MarkAndSave ==
    /\ main.pc = "up"
    /\ \E id \in (Emails \ processed_emails) \cup (Docs \ processed_pdfs) :
       \E how \in {"written", "opened", "refused"}, killed \in BOOLEAN :
          LET emails == IF id \in Emails THEN processed_emails \cup {id} ELSE processed_emails
              pdfs == IF id \in Docs THEN processed_pdfs \cup {id} ELSE processed_pdfs
          IN  /\ killed => how = "opened"
              /\ state_file' = SaveProcessedState(state_file, emails, pdfs, how)
              /\ processed_emails' = IF killed THEN {} ELSE emails
              /\ processed_pdfs' = IF killed THEN {} ELSE pdfs
              /\ main' = [main EXCEPT
                            !.pc = IF killed THEN "off" ELSE "up",
                            !.saved_emails = IF how = "written" THEN @ \cup emails ELSE @,
                            !.saved_pdfs = IF how = "written" THEN @ \cup pdfs ELSE @]
              /\ op' = [kind |-> "mark", clean |-> how = "written", id |-> id, how |-> how,
                        killed |-> killed]
    /\ UNCHANGED <<sheet, drive, fop, stats, run, retry, faults, logsheet, logs>>

\* the process ends or is killed between two units
Kill ==
    /\ main.pc = "up"
    /\ main' = [main EXCEPT !.pc = "off"]
    /\ processed_emails' = {} /\ processed_pdfs' = {}
    /\ op' = [kind |-> "kill", clean |-> TRUE]
    /\ UNCHANGED <<sheet, drive, fop, stats, run, retry, faults, state_file, logsheet, logs>>

LedgerNext == Construct \/ MarkAndSave \/ Kill

LedgerSpec == LedgerInit /\ [][LedgerNext]_vars

(***************************************************************************)
(* MainSpec: main() with run_combined_workflow and the log sheet           *)
(***************************************************************************)
\* the header row of the log sheet, and the row of invocation n
LogHeaders ==
    <<"Start Time", "End Time",
      "Gmail Processed Emails", "Gmail Total Attachments", "Gmail Successful Uploads", "Gmail Failed Uploads",
      "PDF Total PDFs", "PDF Processed PDFs", "PDF Skipped PDFs", "PDF Failed PDFs", "PDF Rows Added">>

\* a row of column names; a row of the log sheet keeps the names (a header row) or the
\* invocation and the stats its eleven cells were made from (a log row)
HeaderRowOf(cells) == [kind |-> "header", inv |-> 0, stats |-> ZeroStats, cells |-> cells]

LogHeaderRow == HeaderRowOf(LogHeaders)

LogRow(n, st) == [kind |-> "log", inv |-> n, stats |-> st, cells |-> <<>>]

\* _update_headers on the log sheet: the first len(headers) cells of row 1 are overwritten
UpdateLogHeaders(ls, fail) ==
    IF fail THEN ls
    ELSE [ls EXCEPT ![1] = HeaderRowOf(LogHeaders \o SubSeq(ls[1].cells, Len(LogHeaders) + 1, Len(ls[1].cells)))]

\* an append to the log sheet: the rows land after the last row
AppendToLogSheet(ls, rows, outcomes) == IF AppendOk(outcomes) THEN ls \o rows ELSE ls

\* _log_workflow_to_sheet: read the sheet; append the header row to an empty sheet, or
\* overwrite a first row that is not the header row; then append the log row
LogWorkflowToSheet(ls, row, env) ==
    LET values == IF env.readFail THEN <<>> ELSE ls
        s1 == IF values = <<>> THEN AppendToLogSheet(ls, <<LogHeaderRow>>, env.hdrAppend)
              ELSE IF values[1] # LogHeaderRow
              THEN UpdateLogHeaders(ls, env.updFail)
              ELSE ls
    IN  AppendToLogSheet(s1, <<row>>, env.rowAppend)

\* remote calls of one _log_workflow_to_sheet that failed
LogFaultCount(env) ==
    B2N(env.readFail) + B2N(env.hdrAppend # AllOk) + B2N(env.updFail) + B2N(env.rowAppend # AllOk)

\* every outcome of the remote calls one _log_workflow_to_sheet issues
LogEnvs(ls, left) ==
    UNION {
      LET values == IF rf THEN <<>> ELSE ls
          left1 == left - B2N(rf)
      IN  UNION {
            UNION {
              {[readFail |-> rf, hdrAppend |-> ha, updFail |-> uf, rowAppend |-> ra]
                 : ra \in IF left1 - B2N(ha # AllOk) - B2N(uf) > 0 THEN AppendOutcomes ELSE {AllOk}}
              : uf \in IF values # <<>> /\ values[1] # LogHeaderRow THEN MayFail(left1) ELSE {FALSE}}
            : ha \in IF values = <<>> /\ left1 > 0 THEN AppendOutcomes ELSE {AllOk}}
      : rf \in MayFail(left)}

\* A combined workflow that goes on to the PDF workflow whatever the Gmail workflow returned.
StopsAfterGmail_Never(gmail_result) == FALSE

\* if not gmail_result['success']
StopsAfterGmail(gmail_result) == gmail_result # "success"

\* A combined workflow that reports failure when the PDF workflow returned failure.
StatusAfterPdf_FailsWithPdf(pdf_result) == IF pdf_result = "failed" THEN "failed" ELSE "success"

\* the status run_combined_workflow returns once process_pdf_workflow has returned:
\* pdf_result['success'] is not read
StatusAfterPdf(pdf_result) == "success"

\* pdf_result['processed']: 0 in every return of failure, processed_count at the end of the loop
PdfResultProcessed(pdf_result, processed_count) == IF pdf_result = "failed" THEN 0 ELSE processed_count

\* main(): the automation is constructed (the ledger is loaded) and authenticates; on
\* success run_combined_workflow resets the stats and enters process_gmail_workflow
MainStart ==
    /\ main.pc \in {"off", "exit"} /\ main.n < MaxInvocations
    /\ LET l == LoadProcessedState(state_file) IN
       /\ processed_emails' = l.emails
       /\ processed_pdfs' = l.pdfs
       /\ \E authenticated \in BOOLEAN :
             /\ main' = [main EXCEPT !.pc = IF authenticated THEN "gmail" ELSE "exit",
                                     !.n = @ + 1,
                                     !.status = IF authenticated THEN "running" ELSE "auth_failed",
                                     !.gmail = "none", !.pdf = "none", !.pdf_pdfs = 0,
                                     !.emails0 = l.emails, !.pdfs0 = l.pdfs, !.file0 = state_file]
             /\ run' = IF authenticated
                       THEN [pc |-> "search", n |-> main.n + 1, result |-> "none", emails |-> <<>>,
                             i |-> 0, base |-> NoId]
                       ELSE IdleRun
             /\ retry' = IF authenticated THEN StartRetry ELSE IdleRetry
    /\ stats' = ZeroStats
    /\ op' = NoOp
    /\ UNCHANGED <<sheet, drive, fop, faults, state_file, logsheet, logs>>

\* process_gmail_workflow has returned: on failure the run is logged and ends as failed,
\* otherwise process_pdf_workflow starts
AfterGmail ==
    /\ main.pc = "gmail" /\ run.pc = "done"
    /\ IF StopsAfterGmail(run.result)
       THEN /\ \E env \in LogEnvs(logsheet, MaxFaults - faults) :
                  /\ logsheet' = LogWorkflowToSheet(logsheet, LogRow(main.n, stats), env)
                  /\ faults' = faults + LogFaultCount(env)
            /\ main' = [main EXCEPT !.pc = "exit", !.status = "failed", !.gmail = run.result]
            /\ UNCHANGED <<op, run, stats>>
       ELSE /\ PdfBegin(main.n, stats)
            /\ main' = [main EXCEPT !.pc = "pdf", !.gmail = run.result, !.pdf = "started"]
            /\ UNCHANGED logsheet
    /\ UNCHANGED <<sheet, drive, fop, processed_emails, processed_pdfs, retry, state_file, logs>>

\* process_pdf_workflow has returned: the run is logged and ends as success
AfterPdf ==
    /\ main.pc = "pdf" /\ run.pc = "done"
    /\ \E env \in LogEnvs(logsheet, MaxFaults - faults) :
          /\ logsheet' = LogWorkflowToSheet(logsheet, LogRow(main.n, stats), env)
          /\ faults' = faults + LogFaultCount(env)
    /\ main' = [main EXCEPT !.pc = "exit", !.status = StatusAfterPdf(run.result), !.pdf = run.result,
                             !.pdf_pdfs = PdfResultProcessed(run.result, stats.pdf.processed_pdfs)]
    /\ UNCHANGED <<sheet, op, drive, fop, processed_emails, processed_pdfs, stats, run, retry, state_file, logs>>

MainNext ==
    \/ MainStart
    \/ SearchAttempt \/ SearchDone \/ EmailStep \/ GmailFinish
    \/ AfterGmail
    \/ PdfFile \/ PdfFinish
    \/ AfterPdf

MainSpec == Init /\ [][MainNext]_vars

(***************************************************************************)
(* LogSpec: log and clear_logs on the in-memory buffer                     *)
(***************************************************************************)
\* A buffer that keeps the oldest entries.
log_KeepOldest(buffer, log_entry) ==
    LET appended == Append(buffer, log_entry)
    IN  IF Len(appended) > LogCap THEN SubSeq(appended, 1, LogCap) ELSE appended

\* log: self.logs.append(log_entry); if len(self.logs) > 100: self.logs = self.logs[-100:]
log(buffer, log_entry) ==
    LET appended == Append(buffer, log_entry)
    IN  IF Len(appended) > LogCap
        THEN SubSeq(appended, Len(appended) - LogCap + 1, Len(appended))
        ELSE appended

\* One call of log. The entry is named by its number among all entries logged; op keeps
\* that number and the number of entries logged since the last clear.
LogCall ==
    /\ (IF op.kind = "log" THEN op.total ELSE 0) < MaxLogCalls
    /\ LET total == IF op.kind = "log" THEN op.total ELSE 0
           since == IF op.kind = "log" THEN op.since ELSE 0
       IN  /\ logs' = log(logs, total + 1)
           /\ op' = [kind |-> "log", clean |-> TRUE, total |-> total + 1, since |-> since + 1]
    /\ UNCHANGED <<sheet, drive, fop, processed_emails, processed_pdfs, stats, run, retry, faults,
                   state_file, logsheet, main>>

\* clear_logs
ClearLogs ==
    /\ logs # <<>>
    /\ logs' = <<>>
    /\ op' = [kind |-> "log", clean |-> TRUE, total |-> op.total, since |-> 0]
    /\ UNCHANGED <<sheet, drive, fop, processed_emails, processed_pdfs, stats, run, retry, faults,
                   state_file, logsheet, main>>

LogNext == LogCall \/ ClearLogs

LogSpec == Init /\ [][LogNext]_vars

(***************************************************************************)
(* AuditSpec: _log_workflow_to_sheet on a log sheet that exists already    *)
(***************************************************************************)
\* what the log sheet may hold before the first call: nothing, the header row, a header
\* row with a column of the user's after or among the audit columns, or fewer columns
StoredLogSheets == {
    <<>>,
    <<LogHeaderRow>>,
    <<HeaderRowOf(LogHeaders \o <<"Note">>)>>,
    <<HeaderRowOf(<<"Start Time", "End Time", "Note">>)>>,
    <<HeaderRowOf(<<"End Time", "Start Time">>), LogRow(0, ZeroStats)>>
}

AuditInit ==
    /\ sheet = <<>> /\ op = NoOp /\ faults = 0
    /\ drive = EmptyDrive /\ fop = <<>>
    /\ processed_emails = {} /\ processed_pdfs = {}
    /\ stats = ZeroStats /\ run = IdleRun /\ retry = IdleRetry
    /\ state_file = NoFile /\ logsheet \in StoredLogSheets /\ main = NoProcess /\ logs = <<>>

\* one call of _log_workflow_to_sheet at the end of a run
AuditStep ==
    /\ (IF op.kind = "audit" THEN op.n ELSE 0) < MaxAuditCalls
    /\ LET n == (IF op.kind = "audit" THEN op.n ELSE 0) + 1 IN
       \E st \in {ZeroStats, [ZeroStats EXCEPT !.gmail.processed_emails = 1]}, env \in LogEnvs(logsheet, MaxFaults - faults) :
          /\ logsheet' = LogWorkflowToSheet(logsheet, LogRow(n, st), env)
          /\ faults' = faults + LogFaultCount(env)
          /\ stats' = st
          /\ op' = [kind |-> "audit", clean |-> LogFaultCount(env) = 0, n |-> n]
    /\ UNCHANGED <<sheet, drive, fop, processed_emails, processed_pdfs, run, retry,
                   state_file, main, logs>>

AuditSpec == AuditInit /\ [][AuditStep]_vars

(***************************************************************************)
(* Properties of the main sheet (SaveSpec)                                 *)
(***************************************************************************)
Header(sh) == IF Len(sh) = 0 THEN <<>> ELSE sh[1].cells

HasKeyColumn(sh) == KeyField \in Range(Header(sh))

\* the body rows of sh, in order, whose cell under the first drive_file_id column is file_id
KeyRows(sh, file_id) ==
    LET col == IndexOf(Header(sh), KeyField)
        keep == {i \in 2..Len(sh) : Len(sh[i].cells) >= col /\ sh[i].cells[col] = file_id}
        idx == SelectIdx(Len(sh), 2, keep)
    IN  [k \in 1..Len(idx) |-> sh[idx[k]].cells]

\* the field names of a batch in order of first appearance
RECURSIVE KeysInOrder(_)
KeysInOrder(rows) ==
    IF rows = <<>> THEN <<>>
    ELSE LET r == rows[1]
             rest == Tail(rows)
         IN  [i \in 1..Len(r) |-> r[i][1]] \o KeysInOrder(rest)

FirstSeen(rows) == AppendMissing(<<>>, KeysInOrder(rows))

Occurrences(s, x) == Cardinality({i \in 1..Len(s) : s[i] = x})

IsSave(o) == o.kind = "save" /\ o.rows # <<>>

\* C2: a save without remote failure into a sheet whose header has the drive_file_id
\* column leaves, for the saved file id, exactly the rows just written (as many as the
\* batch has, the first time, the second time and with changed content) and leaves
\* the rows of every other key as they were.
C2_SaveReplacesRows ==
    [][(IsSave(op') /\ op'.clean /\ HasKeyColumn(sheet)) =>
        /\ KeyRows(sheet', op'.file) =
              [i \in 1..Len(op'.rows) |-> RTrim(AlignRows(op'.rows, op'.all_headers)[i])]
        /\ Len(KeyRows(sheet', op'.file)) = Len(op'.rows)
        /\ \A g \in Docs \ {op'.file} : KeyRows(sheet', g) = KeyRows(sheet, g)]_vars

\* the same batch was saved twice in succession for one file, beside another file's rows
C2_Witness ==
    /\ IsSave(op) /\ op.clean /\ op.again
    /\ Len(op.rows) = 2 /\ Len(KeyRows(sheet, op.file)) = 2
    /\ \E g \in Docs \ {op.file} : Len(KeyRows(sheet, g)) = 1

\* C4: the header list a save reconciles has the header list it read as a prefix,
\* holds every field name of the batch and adds no duplicate; a batch without a new
\* field leaves the header list as it is and the save issues no header write.
C4_ReconcileExtends ==
    IsSave(op) =>
        /\ IsPrefix(op.existing_headers, op.all_headers)
        /\ KeyUnion(op.rows) \subseteq Range(op.all_headers)
        /\ \A x \in Range(op.all_headers) :
              Occurrences(op.all_headers, x) =
                  IF x \in Range(op.existing_headers) THEN Occurrences(op.existing_headers, x) ELSE 1
        /\ (KeyUnion(op.rows) \subseteq Range(op.existing_headers) =>
              op.all_headers = op.existing_headers /\ ~op.hdrWrite)

\* a save has read a stored header row and extended it by a field its batch brought
C4_Witness ==
    /\ IsSave(op) /\ op.clean /\ op.hdrWrite
    /\ op.existing_headers # <<>> /\ Len(op.all_headers) > Len(op.existing_headers)
    /\ Header(sheet) = op.all_headers

\* a save whose batch brought no new field has left the stored header row alone
C4_WitnessFixedPoint ==
    /\ IsSave(op) /\ op.clean /\ ~op.hdrWrite
    /\ op.existing_headers # <<>> /\ op.all_headers = op.existing_headers

\* C5: the stored header row only ever grows: each step leaves the earlier header row
\* as a prefix of the new one (no column removed, renamed or moved).
C5_HeaderOnlyGrows == [][IsPrefix(Header(sheet), Header(sheet'))]_vars

\* C6: the fields a save adds to the header are placed after the existing ones in
\* the order of their first appearance in the batch.
C6_FirstSeenOrder ==
    IsSave(op) => op.all_headers = AppendMissing(op.existing_headers, FirstSeen(op.rows))


(***************************************************************************)
(* Properties of the folder guard (FolderSpec)                             *)
(***************************************************************************)
CallsOf(folder_name, parent_folder_id) ==
    {i \in 1..Len(fop) : fop[i].name = folder_name /\ fop[i].parent = parent_folder_id}

\* the guard was called for the pair and none of its remote calls failed
PairClean(folder_name, parent_folder_id) ==
    /\ CallsOf(folder_name, parent_folder_id) # {}
    /\ \A i \in CallsOf(folder_name, parent_folder_id) : fop[i].fails = 0

CreatesOf(folder_name, parent_folder_id) ==
    Cardinality({i \in CallsOf(folder_name, parent_folder_id) : fop[i].creates = 1})

IdsOf(folder_name, parent_folder_id) == {fop[i].id : i \in CallsOf(folder_name, parent_folder_id)}

NoTwins == \A f, g \in drive.folders : (f.name = g.name /\ f.parent = g.parent) => f = g

ParentsCalled == {NoId, RootId} \cup Range(FolderIds)

\* C7 (as amended): calls of the folder guard with the same name and the same non-empty
\* parent id, none of whose remote calls failed, all return one folder id and issue
\* exactly one create call in total, and no two live folders ever share name and
\* parent; called without a parent the guard returns a live folder of that name from
\* under any parent and issues a create call only when there is none.
C7_GuardIdempotentUnderParent ==
    /\ NoTwins
    /\ \A n \in FolderNames, p \in ParentsCalled \ {NoId} :
          PairClean(n, p) => Cardinality(IdsOf(n, p)) = 1 /\ CreatesOf(n, p) = 1
    /\ \A n \in FolderNames :
          PairClean(n, NoId) =>
             /\ CreatesOf(n, NoId) =< 1
             /\ IdsOf(n, NoId) \subseteq {f.id : f \in FolderMatches(drive, n, NoId)}

\* the guard was called three times for one name under one parent id, without failure
C7_Witness ==
    \E n \in FolderNames, p \in ParentsCalled \ {NoId} :
        PairClean(n, p) /\ Cardinality(CallsOf(n, p)) = 3

\* C7 (as written): calls of the folder guard with the same name and parent, none of
\* whose remote calls failed, all return one folder id and issue exactly one create
\* call in total.
C7_GuardIdempotent ==
    \A n \in FolderNames, p \in ParentsCalled :
        PairClean(n, p) => Cardinality(IdsOf(n, p)) = 1 /\ CreatesOf(n, p) = 1

(***************************************************************************)
(* Properties of the Gmail pipeline (GmailSpec)                            *)
(***************************************************************************)
IsEmailStep == run.pc = "emails" /\ run'.pc = "emails" /\ run'.i = run.i + 1

\* the attachments of the last email whose existence query answered and found the file
Hits(o) == {i \in 1..Len(o.atts) : o.atts[i].queried /\ ~o.atts[i].queryFail /\ o.atts[i].present}

Uploaded(o) == {i \in 1..Len(o.atts) : o.atts[i].uploaded}

\* C8: an attachment whose folder or file existence query failed gets no upload call,
\* and its email is not marked in the ledger.
C8_QueryFailureIsNotAbsence ==
    (op.kind = "email" /\ op.payload) =>
        \A i \in 1..Len(op.atts) :
            (op.atts[i].queried /\ (op.atts[i].queryFail \/ op.atts[i].guardFail)) =>
                ~op.atts[i].uploadIssued /\ ~op.marked

\* the attachments of the last email whose file was in the target folder already
Present(o) == {i \in 1..Len(o.atts) : o.atts[i].queried /\ o.atts[i].present}

\* C9: an attachment whose file is already in the target folder gets no upload call
\* and moves no counter: the step of its email adds to successful_uploads and to
\* total_attachments only the uploads of its other attachments and leaves
\* failed_uploads as it was.
C9_ExistingFileNotUploaded ==
    [][(IsEmailStep /\ op'.kind = "email" /\ op'.payload) =>
        /\ \A i \in Present(op') : ~op'.atts[i].uploadIssued
        /\ stats'.gmail.successful_uploads =
              stats.gmail.successful_uploads + Cardinality(Uploaded(op') \ Present(op'))
        /\ stats'.gmail.total_attachments =
              stats.gmail.total_attachments + Cardinality(Uploaded(op') \ Present(op'))
        /\ stats'.gmail.failed_uploads = stats.gmail.failed_uploads]_vars

\* C9, when the existence query answers: an attachment whose file the query finds gets
\* no upload call; the step adds to successful_uploads and to total_attachments the
\* number of attachments it uploaded, adds that many files to Drive and leaves
\* failed_uploads as it was; an email whose attachments were all found changes
\* neither the stats nor the files.
C9_HitSkipped ==
    [][(IsEmailStep /\ op'.kind = "email" /\ op'.payload) =>
        /\ \A i \in Hits(op') : ~op'.atts[i].uploadIssued /\ ~op'.atts[i].uploaded
        /\ stats'.gmail.successful_uploads = stats.gmail.successful_uploads + Cardinality(Uploaded(op'))
        /\ stats'.gmail.total_attachments = stats.gmail.total_attachments + Cardinality(Uploaded(op'))
        /\ stats'.gmail.failed_uploads = stats.gmail.failed_uploads
        /\ Cardinality(drive'.files) = Cardinality(drive.files) + Cardinality(Uploaded(op'))
        /\ (Hits(op') = 1..Len(op'.atts) => stats' = stats /\ drive'.files = drive.files)]_vars

\* the only attachment of an email was found in its folder, after an earlier upload
C9_HitWitness ==
    /\ op.kind = "email" /\ op.payload /\ op.atts # <<>>
    /\ Hits(op) = 1..Len(op.atts)
    /\ stats.gmail.successful_uploads > 0

\* C10: retry_wrapper invokes the operation at most three times; while it runs, the
\* attempt number is one more than the failures so far; it returns at the first
\* success with that attempt's result; it raises after exactly three failures. The
\* append loop of _append_to_google_sheet has the same budget.
C10_RetryBudget ==
    /\ Len(retry.outcomes) =< MAX_RETRIES
    /\ \A k \in 1..(Len(retry.outcomes) - 1) : ~retry.outcomes[k]
    /\ retry.status = "running" =>
          /\ retry.attempt = Len(retry.outcomes) + 1 /\ retry.attempt =< MAX_RETRIES
          /\ \A k \in 1..Len(retry.outcomes) : ~retry.outcomes[k]
    /\ retry.status = "returned" =>
          /\ retry.outcomes # <<>> /\ retry.outcomes[Len(retry.outcomes)]
          /\ retry.result \in SearchResults
          /\ retry.warnings = Len(retry.outcomes) - 1
    /\ retry.status = "raised" => retry.outcomes = <<FALSE, FALSE, FALSE>>
    /\ \A o \in [1..AppendMaxRetries -> BOOLEAN] :
          /\ AppendAttempts(o) \in 1..AppendMaxRetries
          /\ AppendOk(o) => o[AppendAttempts(o)] /\ \A j \in 1..(AppendAttempts(o) - 1) : ~o[j]
          /\ ~AppendOk(o) => AppendAttempts(o) = AppendMaxRetries

\* the search failed twice and succeeded at the third attempt
C10_Witness == retry.status = "returned" /\ retry.outcomes = <<FALSE, FALSE, TRUE>> /\ run.pc = "emails"

\* the search failed three times and the workflow went on with no emails
C10_WitnessRaised == retry.status = "raised" /\ run.pc = "done" /\ run.result = "success"

(***************************************************************************)
(* Properties of the PDF pipeline (PdfSpec)                                *)
(***************************************************************************)
\* C1: a document id is in the ledger only if its save committed: the step that marked
\* it had no failed remote call, and the document's rows are in the sheet.
C1_LedgerOnlyAfterCommit ==
    /\ \A d \in processed_pdfs : HasKeyColumn(sheet) /\ KeyRows(sheet, d) # <<>>
    /\ (op.kind = "pdf" /\ op.marked) => op.clean /\ op.saved

\* C3: a document that is in the ledger gets no remote call, and a run that ends
\* normally counts as skipped exactly the listed documents its ledger held at the start.
C3_LedgerSkipCounted ==
    /\ (op.kind = "pdf" /\ op.skipped) => op.calls = 0
    /\ (run.pc = "done" /\ run.result = "success") =>
          stats.pdf.skipped_pdfs = Cardinality({i \in 1..Len(run.listed) : run.listed[i] \in run.ledger0})

(***************************************************************************)
(* Properties of the log entries of the retry loops (GmailSpec)            *)
(***************************************************************************)
\* the failed attempts of retry_wrapper that were followed by another attempt
RetriedFailures(rt) == {k \in 1..Len(rt.outcomes) : ~rt.outcomes[k] /\ k < MAX_RETRIES}

\* C11: the WARNING entries retry_wrapper has logged are as many as its failed attempts
\* that were followed by a retry, so a search that fails three times leaves two
\* WARNING entries before the failure is propagated; the append loop logs likewise.
C11_WarningsAreRetries ==
    /\ retry.warnings = Cardinality(RetriedFailures(retry))
    /\ retry.status = "raised" => retry.warnings = MAX_RETRIES - 1
    /\ \A o \in [1..AppendMaxRetries -> BOOLEAN] :
          (\A k \in 1..AppendMaxRetries : ~o[k]) =>
              AppendWarnings(o) = AppendMaxRetries - 1 /\ AppendErrors(o) = 1

(***************************************************************************)
(* Properties of the counters of the PDF pipeline (PdfSpec)                *)
(***************************************************************************)
IsPdfStep == run.pc = "files" /\ run'.pc = "files" /\ run'.i = run.i + 1

\* the last document's save failed: a read of the sheet failed, the delete failed, or
\* the append failed at each of its attempts
SaveFailed(o) == o.kind = "pdf" /\ o.rows # <<>> /\ (o.readFail \/ ~o.saved)

\* C12: a document whose save failed adds one to failed_pdfs and nothing to
\* processed_pdfs and rows_added.
C12_FailedSaveCounted ==
    [][(IsPdfStep /\ SaveFailed(op')) =>
        /\ stats'.pdf.failed_pdfs = stats.pdf.failed_pdfs + 1
        /\ stats'.pdf.processed_pdfs = stats.pdf.processed_pdfs
        /\ stats'.pdf.rows_added = stats.pdf.rows_added]_vars

(***************************************************************************)
(* Properties of failure isolation (GmailSpec)                             *)
(***************************************************************************)
\* C13: an iteration of the email loop in which a remote call failed adds exactly one
\* to failed_uploads, an iteration without a failure adds nothing, and either way the
\* loop goes on to the next email of the same list.
C13_UnitFailureCountedOnce ==
    [][(run.pc = "emails" /\ run.i =< Len(run.emails)) =>
        /\ run'.pc = "emails" /\ run'.i = run.i + 1 /\ run'.emails = run.emails
        /\ stats'.gmail.failed_uploads =
              stats.gmail.failed_uploads + (IF faults' > faults THEN 1 ELSE 0)]_vars

(***************************************************************************)
(* Properties of the unit enumeration (GmailSpec)                          *)
(***************************************************************************)
\* C17: a run whose mail search failed at every attempt ends as failed, and no email
\* step follows the failed search.
C17_EnumerationFailureAborts ==
    (retry.status = "raised" /\ run.pc # "search") =>
        run.pc = "done" /\ run.result = "failed" /\ op.kind # "email"

(***************************************************************************)
(* Properties of the key column of the main sheet (SaveSpec)               *)
(***************************************************************************)
\* C20: every body row of the main sheet holds, in the column the stored header row
\* names drive_file_id, the id of the document whose save appended the row.
C20_KeyColumnIdentifiesSource ==
    \A i \in 2..Len(sheet) :
        /\ HasKeyColumn(sheet)
        /\ LET col == IndexOf(Header(sheet), KeyField)
           IN  Len(sheet[i].cells) >= col /\ sheet[i].cells[col] = sheet[i].src

(***************************************************************************)
(* Properties of the ledger file (LedgerSpec)                              *)
(***************************************************************************)
\* C18: the ledger a process has just loaded holds every id that an earlier save wrote
\* completely, whatever happened to the processes in between.
C18_RestartKeepsSavedUnits ==
    (main.pc = "up" /\ op.kind = "load") =>
        main.saved_emails \subseteq processed_emails /\ main.saved_pdfs \subseteq processed_pdfs

\* the file is missing, is not a JSON object, or holds under a key something that is
\* not a list
WrongShape(file) ==
    \/ file.kind # "object"
    \/ file.emails.t \in {"number", "string"}
    \/ file.pdfs.t \in {"number", "string"}

\* C19: a process that loaded a missing, unparsable or wrongly shaped file starts with
\* both sets of the ledger empty.
C19_LoadAllOrNothing ==
    (main.pc = "up" /\ op.kind = "load" /\ WrongShape(op.file)) =>
        processed_emails = {} /\ processed_pdfs = {}

(***************************************************************************)
(* Properties of main() and run_combined_workflow (MainSpec)               *)
(***************************************************************************)
\* C14: the search and the email loop run only before the PDF workflow has started;
\* the PDF workflow starts only when the Gmail workflow has returned, and returned
\* success; the PDF loop runs only after that; and an invocation whose Gmail workflow
\* returned failure never starts the PDF workflow and ends with status failed.
C14_GmailThenPdf ==
    [][/\ (run'.pc \in {"search", "emails"} => main'.pc = "gmail" /\ main'.pdf = "none")
       /\ ((main.pdf = "none" /\ main'.pdf # "none") =>
              main.pc = "gmail" /\ run.pc = "done" /\ run.result = "success")
       /\ (run'.pc = "files" => main'.pc = "pdf" /\ main'.gmail = "success")
       /\ (main'.gmail = "failed" =>
              main'.pdf = "none" /\ main'.status = "failed" /\ main'.pc = "exit")]_vars

\* the base folder guard failed: the Gmail workflow returned failure and the run ended
C14_Witness ==
    /\ main.pc = "exit" /\ main.gmail = "failed" /\ main.status = "failed"
    /\ run.pc = "done" /\ run.result = "failed" /\ stats.gmail.processed_emails > 0

\* both workflows ran, in order, and each processed a unit
C14_WitnessBoth ==
    /\ main.pc = "exit" /\ main.status = "success" /\ main.gmail = "success" /\ main.pdf = "success"
    /\ stats.gmail.successful_uploads > 0 /\ stats.pdf.processed_pdfs > 0

\* the rows of the log sheet that invocation n appended
AuditRows(n) == {i \in 1..Len(logsheet) : logsheet[i].kind = "log" /\ logsheet[i].inv = n}

\* C15: every invocation that has ended has exactly one row in the log sheet.
C15_OneAuditRowPerInvocation ==
    \A n \in 1..main.n : (n < main.n \/ main.pc = "exit") => Cardinality(AuditRows(n)) = 1

\* C16: an invocation whose authentication failed, or whose PDF workflow returned
\* failure at its startup checks, has left the ledger as it found it: both sets and
\* the file are those of the start of the invocation.
C16_StartupFailureLeavesLedger ==
    (main.status = "auth_failed" \/ main.pdf = "failed") =>
        /\ processed_emails = main.emails0 /\ processed_pdfs = main.pdfs0
        /\ state_file = main.file0

(***************************************************************************)
(* Properties of _process_extracted_data (SaveSpec)                        *)
(***************************************************************************)
\* C21: the records _process_extracted_data made for the last save hold no field whose
\* value is the empty string or None; each has exactly one drive_file_id field, holding
\* the document's id, and a processed_date field; there is one record per item of the
\* extraction result, and none when the result has no items key.
C21_RecordsCleanAndTagged ==
    op.kind = "save" =>
        /\ \A i \in 1..Len(op.rows) :
              /\ \A j \in 1..Len(op.rows[i]) : op.rows[i][j][2] # "" /\ op.rows[i][j][2] # Null
              /\ Cardinality({j \in 1..Len(op.rows[i]) : op.rows[i][j][1] = KeyField}) = 1
              /\ DGet(op.rows[i], KeyField, "") = op.file
              /\ DGet(op.rows[i], "processed_date", "") = Now
        /\ Len(op.rows) = (IF op.data.has_items THEN Len(op.data.items) ELSE 0)

\* the item carried a None value and a drive_file_id of its own
C21_Witness ==
    /\ op.kind = "save" /\ Len(op.rows) = 1 /\ Len(op.data.items) = 1
    /\ DGet(op.data.items[1], KeyField, "") = "other"
    /\ DGet(op.data.items[1], "qty", "") = Null
    /\ ~DHas(op.rows[1], "qty")

\* the extraction result has no items key
C21_WitnessNoItems == op.kind = "save" /\ ~op.data.has_items /\ op.rows = <<>>

(***************************************************************************)
(* Properties of the log buffer (LogSpec)                                  *)
(***************************************************************************)
\* C22: the log buffer holds at most 100 entries, and they are the last
\* min(n, 100) of the n entries logged since the last clear, in the order logged.
C22_BufferIsLastEntries ==
    /\ Len(logs) =< LogCap
    /\ op.kind = "log" =>
          /\ Len(logs) = Min(op.since, LogCap)
          /\ \A i \in 1..Len(logs) : logs[i] = op.total - Len(logs) + i

\* more than 100 entries were logged since the last clear, which came after earlier entries
C22_Witness ==
    op.kind = "log" /\ op.since > LogCap /\ op.total > op.since /\ Len(logs) = LogCap

(***************************************************************************)
(* Properties of the header row of the log sheet (AuditSpec)               *)
(***************************************************************************)
\* C23: a header row of the log sheet keeps every column at its position: each step
\* leaves in row 1 a header row that has the earlier one as a prefix.
C23_LogHeaderOnlyExtended ==
    [][(Len(logsheet) >= 1 /\ logsheet[1].kind = "header") =>
        /\ Len(logsheet') >= 1 /\ logsheet'[1].kind = "header"
        /\ IsPrefix(logsheet[1].cells, logsheet'[1].cells)]_vars

(***************************************************************************)
(* Properties of the remote calls of one save (SaveSpec)                   *)
(***************************************************************************)
Issued(o, c) == \E k \in 1..Len(o.calls) : o.calls[k].c = c

\* C24: a save appends only after its read of the sheet and its delete request succeeded:
\* a save whose read of the sheet data fails, or whose delete request fails, issues no append.
C24_AppendOnlyAfterReadAndDelete ==
    IsSave(op) => ((op.env.dataReadFail \/ op.env.deleteFail) => ~Issued(op, "append"))

\* the half of C24 that the code keeps: a failed delete request is followed by no append
C24_FailedDeleteStops ==
    IsSave(op) => (op.env.deleteFail => ~Issued(op, "append") /\ ~op.ok)

C24_FailedDeleteWitness ==
    IsSave(op) /\ op.env.deleteFail /\ Issued(op, "delete")

\* C25: a save whose header write fails appends no rows.
C25_AppendOnlyAfterHeaderWrite ==
    IsSave(op) => (op.env.hdrWriteFail => ~Issued(op, "append"))

(***************************************************************************)
(* Properties of the delete requests of one save (SaveSpec)                *)
(***************************************************************************)
\* the row positions of the deleteDimension requests a save issued, in the order issued
DeleteRequests(o) ==
    IF \E k \in 1..Len(o.calls) : o.calls[k].c = "delete"
    THEN o.calls[CHOOSE k \in 1..Len(o.calls) : o.calls[k].c = "delete"].arg
    ELSE <<>>

\* the positions of the body rows of sh whose cell under the column that header names
\* drive_file_id equals file_id
MatchingPositions(sh, header, file_id) ==
    LET col == IndexOf(header, KeyField)
    IN  IF col = 0 THEN {}
        ELSE {i \in 2..Len(sh) : Len(sh[i].cells) >= col /\ sh[i].cells[col] = file_id}

\* the header row the sheet has when _replace_rows_for_file runs: the header write, if
\* any, has been made, and no later call changes row 1 of a sheet that has rows
HeaderAtReplace == IF Len(sheet) = 0 THEN <<>> ELSE Header(sheet')

\* C26: the delete requests of a save name exactly the body rows of the sheet whose
\* drive_file_id cell equals the file id, in strictly descending position, and a delete
\* that succeeds removes exactly those rows, one per request.
C26_DeletesExactlyMatchingRows ==
    [][IsSave(op') =>
        LET del == DeleteRequests(op')
            gone == MatchingPositions(sheet, HeaderAtReplace, op'.file)
            n == IF Issued(op', "append") /\ op'.ok THEN Len(op'.rows) ELSE 0
            idx == SelectIdx(Len(sheet), 1, (1..Len(sheet)) \ gone)
            left == [k \in 1..Len(idx) |-> sheet[idx[k]]]
        IN  /\ Range(del) = gone
            /\ Len(del) = Cardinality(gone)
            /\ \A k \in 1..(Len(del) - 1) : del[k] > del[k + 1]
            /\ (Issued(op', "delete") /\ ~op'.env.deleteFail /\ ~op'.env.wrongSheetId) =>
                  SubSeq(sheet', 2, Len(sheet') - n) = SubSeq(left, 2, Len(sheet) - Len(del))]_vars

\* the part of C26 that holds: the requests name exactly the matching rows of the data
\* the save read, in strictly descending position, one row each
C26_RequestsMatchRowsRead ==
    IsSave(op) =>
        LET del == DeleteRequests(op)
            col == IF op.values = <<>> THEN 0 ELSE IndexOf(op.values[1], KeyField)
            hit == IF col = 0 THEN {}
                   ELSE {i \in 2..Len(op.values) : Len(op.values[i]) >= col /\ op.values[i][col] = op.file}
        IN  /\ Range(del) = hit /\ Len(del) = Cardinality(hit)
            /\ \A k \in 1..(Len(del) - 1) : del[k] > del[k + 1]

\* the body rows of sh, in order, that a save of another document than file_id appended
OtherDocumentsRows(sh, file_id) ==
    LET idx == SelectIdx(Len(sh), 2, {i \in 2..Len(sh) : sh[i].src # file_id})
    IN  [k \in 1..Len(idx) |-> sh[idx[k]]]

\* C27: a save for one document leaves the body rows of every other document as they
\* were, cell for cell and in the same order, whatever the outcome of its remote calls.
C27_OtherDocumentsRowsKept ==
    [][IsSave(op') =>
        OtherDocumentsRows(sheet', op'.file) = OtherDocumentsRows(sheet, op'.file)]_vars

\* a save deleted two rows of its document that had another document's row between
\* them (requests <<4, 2>>), and that row is still in the sheet
C27_Witness ==
    /\ IsSave(op) /\ Issued(op, "delete") /\ ~op.env.deleteFail /\ ~op.env.wrongSheetId
    /\ Len(DeleteRequests(op)) = 2 /\ DeleteRequests(op)[1] > DeleteRequests(op)[2] + 1
    /\ OtherDocumentsRows(sheet, op.file) # <<>>

(***************************************************************************)
(* Properties of a save into a sheet without the key column (StoredSpec)   *)
(***************************************************************************)
\* C28: a save whose replace step finds a header row that does not name drive_file_id
\* issues no delete request, issues the append, and leaves every body row in place.
C28_NoKeyColumnAppendsDirectly ==
    [][(IsSave(op') /\ Len(sheet) >= 1 /\ ~Contains(HeaderAtReplace, KeyField)) =>
        /\ ~Issued(op', "delete")
        /\ Issued(op', "append")
        /\ SubSeq(sheet', 2, Len(sheet)) = SubSeq(sheet, 2, Len(sheet))
        /\ op'.ok => Len(sheet') = Len(sheet) + Len(op'.rows)]_vars

\* the replace step read a header row without the key column above a body row whose
\* first cell is the file id, and the rows were appended below
C28_Witness ==
    /\ IsSave(op) /\ op.ok /\ Len(op.values) >= 2
    /\ ~Contains(op.values[1], KeyField) /\ ~Contains(Header(sheet), KeyField)
    /\ \E i \in 2..Len(op.values) : op.values[i][1] = op.file
    /\ Len(sheet) = Len(op.values) + Len(op.rows)

(***************************************************************************)
(* Properties of the folder path of the uploads (GmailSpec)                *)
(***************************************************************************)
IsBaseFolder(d, id) ==
    \E b \in d.folders : b.id = id /\ b.name = BaseFolderName /\ b.parent = RootId

IsSearchFolder(d, id) ==
    \E s \in d.folders : s.id = id /\ s.name = SearchFolderName /\ IsBaseFolder(d, s.parent)

IsTypeFolder(d, id) ==
    \E y \in d.folders : y.id = id /\ y.name \in {"PDFs", "Other"} /\ IsSearchFolder(d, y.parent)

\* C29: every folder in Drive is the base folder under the configured folder, a
\* search-term folder in a base folder or a file-type folder in a search-term folder,
\* and every file is in such a file-type folder.
C29_EverythingOnThePath ==
    /\ \A f \in drive.folders :
          IsBaseFolder(drive, f.id) \/ IsSearchFolder(drive, f.id) \/ IsTypeFolder(drive, f.id)
    /\ \A u \in drive.files : IsTypeFolder(drive, u.parent)

C30_WitnessPartly ==
    /\ op.kind = "email" /\ op.payload /\ Hits(op) # {} /\ Uploaded(op) # {}
    /\ op.id \in processed_emails

(***************************************************************************)
(* Properties of the result of run_combined_workflow (MainSpec)            *)
(***************************************************************************)
\* C31: a combined run that has returned has status failed exactly when its Gmail
\* workflow returned failure; when its PDF workflow returned failure its status is
\* success and its pdf_pdfs is 0.
C31_FailedIffGmailFailed ==
    (main.pc = "exit" /\ main.status \in {"failed", "success"}) =>
        /\ main.status = "failed" <=> main.gmail = "failed"
        /\ main.gmail \in {"failed", "success"}
        /\ main.pdf = "failed" => (main.status = "success" /\ main.pdf_pdfs = 0)

\* the Gmail workflow uploaded a file, the PDF workflow failed at its startup checks,
\* and the combined run returned success
C31_Witness ==
    /\ main.pc = "exit" /\ main.status = "success" /\ main.gmail = "success" /\ main.pdf = "failed"
    /\ main.pdf_pdfs = 0 /\ stats.gmail.successful_uploads > 0

(***************************************************************************)
(* Properties of the counters of a PDF run against the sheet (PdfSpec)     *)
(***************************************************************************)
\* the data rows the last iteration of the PDF loop appended to the main sheet
RowsAppended(o) == IF o.kind = "pdf" /\ o.saved THEN Len(o.rows) ELSE 0

\* C32: each iteration of the PDF loop adds to rows_added the number of rows it
\* appended to the main sheet, and adds one to processed_pdfs exactly when it appended
\* rows; the counters start at zero, so at the end of the run they equal the rows
\* appended and the documents whose rows were appended.
C32_CountersMatchAppends ==
    [][IsPdfStep =>
        /\ stats'.pdf.rows_added = stats.pdf.rows_added + RowsAppended(op')
        /\ stats'.pdf.processed_pdfs = stats.pdf.processed_pdfs + (IF RowsAppended(op') > 0 THEN 1 ELSE 0)]_vars

(***************************************************************************)
(* Properties of the three outcome counters of a PDF run (PdfSpec)         *)
(***************************************************************************)
Counted(st) == st.pdf.processed_pdfs + st.pdf.skipped_pdfs + st.pdf.failed_pdfs

\* C33: in every state of a PDF run processed_pdfs + skipped_pdfs + failed_pdfs is at
\* most total_pdfs. No document is counted twice: the documents counted as skipped
\* are listed documents that are not in the list the loop goes through, the loop takes
\* each document of its list once, processed_pdfs + failed_pdfs never exceeds the
\* iterations made (none in a run that failed at its startup checks), and an iteration
\* adds one to at most one of the two.
C33_CountersPartitionTheListing ==
    [][/\ run'.pc \in {"files", "done"} =>
            /\ Counted(stats') =< stats'.pdf.total_pdfs
            /\ stats'.pdf.total_pdfs = Len(run'.listed)
            /\ \A i, j \in 1..Len(run'.files) : run'.files[i] = run'.files[j] => i = j
            /\ Range(run'.files) \subseteq Range(run'.listed)
            /\ stats'.pdf.skipped_pdfs + Len(run'.files) =< Len(run'.listed)
            /\ stats'.pdf.processed_pdfs + stats'.pdf.failed_pdfs =<
                  (IF run'.i = 0 THEN 0 ELSE run'.i - 1)
       /\ IsPdfStep =>
            /\ stats'.pdf.processed_pdfs >= stats.pdf.processed_pdfs
            /\ stats'.pdf.failed_pdfs >= stats.pdf.failed_pdfs
            /\ Counted(stats') =< Counted(stats) + 1
            /\ stats'.pdf.skipped_pdfs = stats.pdf.skipped_pdfs
            /\ stats'.pdf.total_pdfs = stats.pdf.total_pdfs
            /\ run'.files = run.files /\ run'.listed = run.listed]_vars

\* a run over two listed documents ended with one processed and one failed
C33_Witness ==
    /\ run.pc = "done" /\ run.result = "success" /\ Len(run.listed) = 2
    /\ stats.pdf.processed_pdfs = 1 /\ stats.pdf.failed_pdfs = 1 /\ stats.pdf.skipped_pdfs = 0
    /\ Counted(stats) = stats.pdf.total_pdfs

\* a run over two listed documents ended with one skipped and one processed
C33_WitnessSkipped ==
    /\ run.pc = "done" /\ run.result = "success" /\ Len(run.listed) = 2
    /\ stats.pdf.processed_pdfs = 1 /\ stats.pdf.skipped_pdfs = 1

====
